---- MODULE Spec2Model ----
(***************************************************************************)
(* News bot: content aggregation and per-user correlation layer.           *)
(*                                                                         *)
(* Two deployable variants are modelled, selected by `bot`:                *)
(*   "NewsBot"        src/bot.py  (polling bot, stores news.json and       *)
(*                    users.json) together with the separate scheduler     *)
(*                    process of src/scheduler.py that reads both files;   *)
(*   "SimpleNewsBot"  src/simple_sync_webhook_bot.py (favorites.json,      *)
(*                    subscriptions.json and the in-memory                 *)
(*                    last_news_cache).                                    *)
(*                                                                         *)
(* Every handler is one atomic action: python-telegram-bot processes the   *)
(* updates of bot.py one after the other.  Store reads and writes succeed  *)
(* in Spec (the except branches of _load_data/_save_data are not taken).   *)
(* Time is counted in minutes.                                             *)
(***************************************************************************)
EXTENDS Integers, Sequences, FiniteSets, TLC

VARIABLES
    bot,                \* which variant is deployed
    now,                \* wall clock, minutes
    newsFile,           \* data/news.json       {last_update, news}
    usersFile,          \* data/users.json      {subscribers, favorites}
    favoritesFile,      \* data/favorites.json  {user -> list}
    subscriptionsFile,  \* data/subscriptions.json {user -> record}
    last_news_cache,    \* SimpleNewsBot.last_news_cache (absent key = None)
    shown,              \* per user: the numbered list of the last view sent
    reply,              \* kind of the answer the last handler sent
    ret,                \* batch returned by the last _update_news / get_news
    calls,              \* provider requests issued by the last handler
    failed,             \* how many of them failed
    origin,             \* where the batch stored in news.json came from
    lastToggle,         \* per user: what the last /daily answered
    digest,             \* what the last digest broadcast read and sent
    unreadable,         \* store files that json.load cannot parse right now
    denied,             \* store files whose read raises another exception
    inflight,           \* per user: a handler that has read and not yet written
    sched               \* NewsScheduler.run_scheduler: clock and position

vars == <<bot, now, newsFile, usersFile, favoritesFile, subscriptionsFile,
          last_news_cache, shown, reply, ret, calls, failed, origin,
          lastToggle, digest, unreadable, denied, inflight, sched>>

\* the handlers of one process run one at a time and leave these alone
aux == <<inflight, sched, denied>>

----------------------------------------------------------------------------
(* Bounds and program constants *)

Users == {1, 2}
MaxTicks == 3           \* the clock stops after this many ticks
MaxFav == 2             \* favorites kept per user in the model
MaxIdx == 3             \* largest index a user types or a button carries
NegIdx == 1             \* the smallest one is -NegIdx

TTL == 30               \* timedelta(minutes=30)
TickMinutes == TTL \div 2
MaxTime == MaxTicks * TickMinutes
MinNews == 5            \* len(news_list) < 5 triggers the aggregate query
MaxBatch == 15          \* NewsBot: len(news_list) >= 15 stops the merge
SimpleMaxBatch == 10    \* SimpleNewsBot: len(news_list) >= 10 stops the merge
SimpleReturn == 8       \* SimpleNewsBot: return news_list[:8]
SimplePick == 3         \* SimpleNewsBot: categories[:3]
DigestItems == 5        \* the digest lists news_list[:5]
NewsShown == 10         \* news_command shows news_list[:10]
FilterShown == 5        \* filter_command shows filtered_news[:5]
FilterMin == 3          \* filter_command searches the API below 3 hits
CategoryShown == 8      \* category_command shows news_list[:8]
SimpleShown == 5        \* handle_news_command caches filtered_news[:5]

None == -1               \* "last_update": None
Removed == "https://removed.com"
Placeholder == "description unavailable"

----------------------------------------------------------------------------
(* Sequence helpers *)

Range(s) == {s[i] : i \in 1..Len(s)}

Take(s, n) == SubSeq(s, 1, IF Len(s) < n THEN Len(s) ELSE n)

TitlesOf(s) == {s[i].title : i \in 1..Len(s)}

HasTitle(s, t) == \E i \in 1..Len(s) : s[i].title = t

NoDupTitles(s) == \A i, j \in 1..Len(s) : s[i].title = s[j].title => i = j

\* list.pop() in place of list.remove(x): drops the last element
RemoveLast(s, x) == SubSeq(s, 1, Len(s) - 1)

\* list.remove(x): drops the first occurrence only
RECURSIVE RemoveFirst(_, _)
RemoveFirst(s, x) ==
    IF s = <<>> THEN <<>>
    ELSE IF Head(s) = x THEN Tail(s)
    ELSE <<Head(s)>> \o RemoveFirst(Tail(s), x)

\* Python list indexing with a 1-based number n: list[n - 1]; a negative
\* offset counts from the end, an offset outside the list raises IndexError.
PyIndexable(s, n) ==
    LET k == n - 1 IN (k >= 0 /\ k < Len(s)) \/ (k < 0 /\ -k <= Len(s))

PyIndex(s, n) ==
    LET k == n - 1 IN IF k >= 0 THEN s[k + 1] ELSE s[Len(s) + k + 1]

----------------------------------------------------------------------------
(* Categories *)

\* self.categories: english key -> label stored in the item
CategoryLabel(c) ==
    CASE c = "technology"    -> "tekhnologii"
      [] c = "science"       -> "nauka"
      [] c = "business"      -> "biznes"
      [] c = "health"        -> "zdorovye"
      [] c = "sports"        -> "sport"
      [] c = "entertainment" -> "razvlecheniya"
      [] c = "general"       -> "obshchie"
      [] OTHER               -> c

GeneralLabel == "obshchie"
SearchLabel == "poisk"

\* the fixed ordered list queried by NewsBot._fetch_news
FetchCategories == <<"technology", "science", "business", "health", "sports">>

\* the list SimpleNewsBot.get_news shuffles
SimpleCategories == {"technology", "science", "business", "health", "sports",
                     "entertainment"}

\* "top" is top-headlines without a category, "everything" the keyword search
Queries == SimpleCategories \cup {"general", "top", "everything"}

\* the keys of self.categories, accepted by /category
CategoryKeys == SimpleCategories \cup {"general"}

----------------------------------------------------------------------------
(* ProviderClient: what the news API answers.  An answer is Fail (network   *)
(* error, timeout, non-success status raised by raise_for_status) or Ok     *)
(* with the raw articles of the response (none when the response carries no *)
(* articles or its status is not 'ok').                                     *)

Fail == [ok |-> FALSE, articles |-> <<>>]
Ok(articles) == [ok |-> TRUE, articles |-> articles]

Art(t, d, u) == [title |-> t, description |-> d, url |-> u]

rA == Art("A", "d", "u")
rB == Art("B", "d", "u")
rNoTitle == Art("", "d", "u")
rNoDesc == Art("C", "", "u")
rRemoved == Art("D", "d", Removed)

\* a provider world answers every query
World(t, s, r, g, e) ==
    [q \in Queries |->
        CASE q = "technology" -> t
          [] q = "science"    -> s
          [] q = "top"        -> g
          [] q = "everything" -> e
          [] OTHER            -> r]

TechAnswers == {Fail, Ok(<<>>), Ok(<<rA, rRemoved>>)}
ScienceAnswers == {Ok(<<>>), Ok(<<rA>>)}
RestAnswers == {Ok(<<>>), Fail}
TopAnswers == {Fail, Ok(<<>>), Ok(<<rNoTitle, rA, rB>>)}
SearchAnswers == {Fail, Ok(<<>>), Ok(<<rB, rNoDesc>>)}

Worlds ==
    {World(t, s, r, g, e) : t \in TechAnswers, s \in ScienceAnswers,
                            r \in RestAnswers, g \in TopAnswers,
                            e \in SearchAnswers}

----------------------------------------------------------------------------
(* Normalizer *)

\* article.get('title') and article.get('description') and article.get('url')
\* and article['url'] != 'https://removed.com'
Accepts(a) ==
    a.title # "" /\ a.description # "" /\ a.url # "" /\ a.url # Removed

MkItem(a, label) ==
    [title       |-> a.title,
     description |-> IF a.description # "" THEN a.description ELSE Placeholder,
     url         |-> a.url,
     category    |-> label]

\* the inner loop over data['articles'] of one category answer
RECURSIVE NormalizeAll(_, _)
NormalizeAll(articles, label) ==
    IF articles = <<>> THEN <<>>
    ELSE (IF Accepts(Head(articles)) THEN <<MkItem(Head(articles), label)>>
                                     ELSE <<>>)
         \o NormalizeAll(Tail(articles), label)

\* the aggregate merge without the test for a title already in the batch
RECURSIVE MergeEvery(_, _, _)
MergeEvery(articles, news_list, cap) ==
    IF articles = <<>> THEN news_list
    ELSE IF Accepts(Head(articles))
         THEN LET nl == Append(news_list, MkItem(Head(articles), GeneralLabel))
              IN  IF Len(nl) >= cap THEN nl
                  ELSE MergeEvery(Tail(articles), nl, cap)
         ELSE MergeEvery(Tail(articles), news_list, cap)

\* the aggregate merge: new titles only, stop at the cap
RECURSIVE MergeGeneral(_, _, _)
MergeGeneral(articles, news_list, cap) ==
    IF articles = <<>> THEN news_list
    ELSE IF Accepts(Head(articles)) /\ ~HasTitle(news_list, Head(articles).title)
         THEN LET nl == Append(news_list, MkItem(Head(articles), GeneralLabel))
              IN  IF Len(nl) >= cap THEN nl
                  ELSE MergeGeneral(Tail(articles), nl, cap)
         ELSE MergeGeneral(Tail(articles), news_list, cap)

----------------------------------------------------------------------------
(* Built-in sample batches *)

Sample(t, c) == [title |-> t, description |-> "sample", url |-> "example",
                 category |-> c]

\* NewsBot._get_test_news
TestNews ==
    << Sample("test-ai", "tekhnologii"),
       Sample("test-quantum", "nauka"),
       Sample("test-crypto", "biznes"),
       Sample("test-processor", "tekhnologii"),
       Sample("test-medicine", "nauka"),
       Sample("test-startups", "biznes") >>

\* SimpleNewsBot.get_test_news
SimpleTestNews ==
    << Sample("test-ai", "tekhnologii"),
       Sample("test-quantum", "nauka") >>

\* NewsBot._get_test_news of full_webhook_bot.py
WebhookTestNews ==
    << Sample("test-ai", "tekhnologii"),
       Sample("test-quantum", "nauka") >>

----------------------------------------------------------------------------
(* NewsBot._fetch_news *)

\* the for loop over the categories; a failed request leaves the loop through
\* the except clause of the function
RECURSIVE CategoryLoop(_, _, _)
CategoryLoop(w, i, acc) ==
    IF i > Len(FetchCategories) THEN acc
    ELSE LET c == FetchCategories[i] IN
         IF ~w[c].ok
         THEN [acc EXCEPT !.calls = @ + 1, !.failed = @ + 1, !.aborted = TRUE]
         ELSE CategoryLoop(w, i + 1,
                  [acc EXCEPT !.calls = @ + 1,
                              !.news = @ \o NormalizeAll(w[c].articles, CategoryLabel(c))])

\* a fetch that gives up the category items when the aggregate query fails
FetchNewsStrict(w) ==
    LET c == CategoryLoop(w, 1, [news |-> <<>>, calls |-> 0, failed |-> 0,
                                 aborted |-> FALSE])
        useTop == ~c.aborted /\ Len(c.news) < MinNews
        merged == IF useTop /\ w["top"].ok
                  THEN MergeGeneral(w["top"].articles, c.news, MaxBatch)
                  ELSE c.news
        sample == c.aborted \/ merged = <<>> \/ (useTop /\ ~w["top"].ok)
    IN  [news     |-> IF sample THEN TestNews ELSE merged,
         calls    |-> c.calls + (IF useTop THEN 1 ELSE 0),
         failed   |-> c.failed + (IF useTop /\ ~w["top"].ok THEN 1 ELSE 0),
         usable   |-> Len(merged),
         provided |-> ~sample]

\* a fetch that asks the aggregate query a second time when it fails
FetchNewsRetry(w) ==
    LET c == CategoryLoop(w, 1, [news |-> <<>>, calls |-> 0, failed |-> 0,
                                 aborted |-> FALSE])
        useTop == ~c.aborted /\ Len(c.news) < MinNews
        merged == IF useTop /\ w["top"].ok
                  THEN MergeGeneral(w["top"].articles, c.news, MaxBatch)
                  ELSE c.news
        sample == c.aborted \/ merged = <<>>
        again == IF w["top"].ok THEN 1 ELSE 2
    IN  [news     |-> IF sample THEN TestNews ELSE merged,
         calls    |-> c.calls + (IF useTop THEN again ELSE 0),
         failed   |-> c.failed + (IF useTop /\ ~w["top"].ok THEN again ELSE 0),
         usable   |-> Len(merged),
         provided |-> ~sample]

FetchNews(w) ==
    LET c == CategoryLoop(w, 1, [news |-> <<>>, calls |-> 0, failed |-> 0,
                                 aborted |-> FALSE])
        useTop == ~c.aborted /\ Len(c.news) < MinNews
        merged == IF useTop /\ w["top"].ok
                  THEN MergeGeneral(w["top"].articles, c.news, MaxBatch)
                  ELSE c.news
        sample == c.aborted \/ merged = <<>>
    IN  [news     |-> IF sample THEN TestNews ELSE merged,
         calls    |-> c.calls + (IF useTop THEN 1 ELSE 0),
         failed   |-> c.failed + (IF useTop /\ ~w["top"].ok THEN 1 ELSE 0),
         usable   |-> Len(merged),
         provided |-> ~sample]

FetchOutcomes == {FetchNews(w) : w \in Worlds}

\* NewsBot._fetch_news of full_webhook_bot.py: the same queries and merge,
\* with the sample batch of that file
WebhookFetchNews(w) ==
    LET r == FetchNews(w)
    IN  IF r.provided THEN r ELSE [r EXCEPT !.news = WebhookTestNews]

WebhookFetchOutcomes == {WebhookFetchNews(w) : w \in Worlds}

----------------------------------------------------------------------------
(* NewsBot._search_news_api and the query of category_command *)

SearchNewsApi(w) ==
    [news   |-> IF w["everything"].ok
                THEN NormalizeAll(w["everything"].articles, SearchLabel)
                ELSE <<>>,
     calls  |-> 1,
     failed |-> IF w["everything"].ok THEN 0 ELSE 1]

SearchOutcomes == {SearchNewsApi(w) : w \in Worlds}

CategoryQuery(w, c) ==
    [ok   |-> w[c].ok,
     news |-> NormalizeAll(w[c].articles, CategoryLabel(c))]

CategoryOutcomes == {CategoryQuery(w, c) : w \in Worlds, c \in CategoryKeys}

----------------------------------------------------------------------------
(* Dictionaries (JSON objects keyed by str(user_id)) *)

Str(u) == ToString(u)

Get(d, k, default) == IF k \in DOMAIN d THEN d[k] ELSE default

Put(d, k, v) == [x \in DOMAIN d \cup {k} |-> IF x = k THEN v ELSE d[x]]

\* the favorites a reader of users.json sees for user u
Favorites(u) == Get(usersFile.favorites, Str(u), <<>>)

\* keyword match of /filter: search_word in title.lower()
Lower(t) == CASE t = "A" -> "a" [] t = "B" -> "b" [] OTHER -> t

Keywords == {"a", "b"}

Matches(word, item) == word = Lower(item.title)

Filtered(news_list, word) == SelectSeq(news_list, LAMBDA x : Matches(word, x))

----------------------------------------------------------------------------
(* State after construction: _init_data_files of both variants *)

\* send_daily_digest returned before composing: no subscribers or no news
NothingSent(subscribers) ==
    [subscribers |-> subscribers, attempted |-> <<>>, delivered |-> <<>>,
     items |-> <<>>, text |-> <<>>]

\* the provider was not asked
NoCall == [news |-> <<>>, calls |-> 0, failed |-> 0, usable |-> 0,
           provided |-> FALSE]

NoItem == [title |-> "", description |-> "", url |-> "", category |-> ""]

\* no handler of the user is between its read and its write
Idle == [pc |-> "idle", fetched |-> NoCall, stamp |-> None,
         favorites |-> <<>>, item |-> NoItem]

\* run_scheduler has not been started; clock is the second at which the loop
\* samples datetime.now() next, lastFire the second of its last match
SchedulerStopped == [pc |-> "stopped", clock |-> 0, lastFire |-> None]

Init ==
    /\ bot \in {"NewsBot", "SimpleNewsBot", "WebhookNewsBot"}
    /\ now = 0
    /\ newsFile = [last_update |-> None, news |-> <<>>]
    /\ usersFile = [subscribers |-> <<>>, favorites |-> <<>>]
    /\ favoritesFile = <<>>
    /\ subscriptionsFile = <<>>
    /\ last_news_cache = [u \in Users |-> [present |-> FALSE, list |-> <<>>]]
    /\ shown = [u \in Users |-> <<>>]
    /\ reply = "none"
    /\ ret = <<>>
    /\ calls = 0
    /\ failed = 0
    /\ origin = "none"
    /\ lastToggle = [u \in Users |-> "none"]
    /\ digest = NothingSent(<<>>)
    /\ unreadable = {}
    /\ denied = {}
    /\ inflight = [u \in Users |-> Idle]
    /\ sched = SchedulerStopped

Tick ==
    /\ now + TickMinutes <= MaxTime
    /\ now' = now + TickMinutes
    /\ UNCHANGED <<bot, aux, unreadable, newsFile, usersFile, favoritesFile, subscriptionsFile,
                   last_news_cache, shown, reply, ret, calls, failed, origin,
                   lastToggle, digest>>

----------------------------------------------------------------------------
(* NewsBot (src/bot.py) *)

\* _load_data returns {} for a file that is missing or does not parse; the
\* handlers read it with .get(key, default)
NewsJson == "news.json"
UsersJson == "users.json"
FavoritesJson == "favorites.json"

LoadNews ==
    IF NewsJson \in unreadable THEN [last_update |-> None, news |-> <<>>]
    ELSE newsFile

LoadUsers ==
    IF UsersJson \in unreadable THEN [subscribers |-> <<>>, favorites |-> <<>>]
    ELSE usersFile

\* the TTL comparison made inclusive
StaleInclusive ==
    LoadNews.last_update = None \/ LoadNews.last_update <= now - TTL

\* not news_data.get('last_update') or last_update < current_time - 30 min
Stale == LoadNews.last_update = None \/ LoadNews.last_update < now - TTL

\* _update_news; r is what _fetch_news returns if it is called
UpdateNews(r) ==
    IF NewsJson \in denied
    THEN \* the read raises, except Exception: return []
         /\ ret' = <<>>
         /\ calls' = 0
         /\ failed' = 0
         /\ UNCHANGED <<newsFile, origin, unreadable>>
    ELSE IF Stale
    THEN /\ newsFile' = [last_update |-> now, news |-> r.news]
         /\ ret' = r.news
         /\ calls' = r.calls
         /\ failed' = r.failed
         /\ origin' = IF r.provided THEN "provider" ELSE "sample"
         /\ unreadable' = unreadable \ {NewsJson}
    ELSE /\ ret' = LoadNews.news
         /\ calls' = 0
         /\ failed' = 0
         /\ UNCHANGED <<newsFile, origin, unreadable>>

news_command(u, r) ==
    /\ bot = "NewsBot"
    /\ UpdateNews(r)
    /\ IF ret' = <<>>
       THEN /\ reply' = "unavailable"
            /\ UNCHANGED shown
       ELSE /\ reply' = "news"
            /\ shown' = [shown EXCEPT ![u] = Take(ret', NewsShown)]
    /\ UNCHANGED <<bot, aux, now, usersFile, favoritesFile, subscriptionsFile,
                   last_news_cache, lastToggle, digest>>

\* news_command of full_webhook_bot.py
webhook_news_command(u, r) ==
    /\ bot = "WebhookNewsBot"
    /\ UpdateNews(r)
    /\ IF ret' = <<>>
       THEN /\ reply' = "unavailable"
            /\ UNCHANGED shown
       ELSE /\ reply' = "news"
            /\ shown' = [shown EXCEPT ![u] = Take(ret', NewsShown)]
    /\ UNCHANGED <<bot, aux, now, usersFile, favoritesFile, subscriptionsFile,
                   last_news_cache, lastToggle, digest>>

filter_command(u, word, e) ==
    /\ bot = "NewsBot"
    /\   LET local == Filtered(LoadNews.news, word)
             search == Len(local) < FilterMin
             filtered_news == IF search THEN local \o e.news ELSE local
         IN  /\ calls' = IF search THEN e.calls ELSE 0
             /\ failed' = IF search THEN e.failed ELSE 0
             /\ IF filtered_news = <<>>
                THEN /\ reply' = "not_found"
                     /\ UNCHANGED shown
                ELSE /\ reply' = "filter"
                     /\ shown' = [shown EXCEPT
                                    ![u] = Take(filtered_news, FilterShown)]
    /\ UNCHANGED <<bot, aux, unreadable, now, newsFile, usersFile, favoritesFile,
                   subscriptionsFile, last_news_cache, ret, origin,
                   lastToggle, digest>>

category_command(u, o) ==
    /\ bot = "NewsBot"
    /\   /\ calls' = 1
         /\ failed' = IF o.ok THEN 0 ELSE 1
         /\ IF ~o.ok
            THEN /\ reply' = "error"
                 /\ UNCHANGED shown
            ELSE IF o.news = <<>>
            THEN /\ reply' = "unavailable"
                 /\ UNCHANGED shown
            ELSE /\ reply' = "category"
                 /\ shown' = [shown EXCEPT ![u] = Take(o.news, CategoryShown)]
    /\ UNCHANGED <<bot, aux, unreadable, now, newsFile, usersFile, favoritesFile,
                   subscriptionsFile, last_news_cache, ret, origin,
                   lastToggle, digest>>

\* the numbers int() can parse from "/save <n>" or from "save_<n>"
Numbers == (0 - NegIdx)..MaxIdx

\* news_to_save in favorites[...]: compares whole items, not titles
AlreadySavedWhole(favs, item) == item \in Range(favs)

\* any(saved['title'] == news_to_save['title'] for saved in favorites[...])
AlreadySaved(favs, item) == HasTitle(favs, item.title)

\* user_id in subscribers
\* a membership test that looks at the head of the list only
IsSubscribedHead(u, subscribers) == subscribers # <<>> /\ subscribers[1] = u

IsSubscribed(u, subscribers) == u \in Range(subscribers)

\* favorites.append(news_to_save) for user u, written back with _save_data
LoadedFavorites(u) == Get(LoadUsers.favorites, Str(u), <<>>)

\* the save that puts the item in front of the list
AddFavoriteFirst(u, item) ==
    [LoadUsers EXCEPT
       !.favorites = Put(@, Str(u), <<item>> \o LoadedFavorites(u))]

AddFavorite(u, item) ==
    [LoadUsers EXCEPT
        !.favorites = Put(@, Str(u), Append(LoadedFavorites(u), item))]

save_command(u, n) ==
    /\ bot = "NewsBot"
    /\ LET news_list == LoadNews.news IN
       IF n < 1 \/ n > Len(news_list)
       THEN /\ reply' = "invalid"
            /\ UNCHANGED <<usersFile, unreadable>>
       ELSE LET news_to_save == news_list[n] IN
            IF AlreadySaved(LoadedFavorites(u), news_to_save)
            THEN /\ reply' = "exists"
                 /\ UNCHANGED <<usersFile, unreadable>>
            ELSE /\ Len(LoadedFavorites(u)) < MaxFav
                 /\ usersFile' = AddFavorite(u, news_to_save)
                 /\ unreadable' = unreadable \ {UsersJson}
                 /\ reply' = "saved"
    /\ calls' = 0
    /\ failed' = 0
    /\ UNCHANGED <<bot, aux, now, newsFile, favoritesFile, subscriptionsFile,
                   last_news_cache, shown, ret, origin, lastToggle, digest>>

\* favorites_command: the list of the user's favorites, or the answer that
\* there are none; a read that raises past _load_data ends in the except
\* clause of the handler
favorites_command(u) ==
    /\ bot = "NewsBot"
    /\ IF UsersJson \in denied
       THEN /\ reply' = "error"
            /\ ret' = <<>>
       ELSE IF LoadedFavorites(u) = <<>>
       THEN /\ reply' = "no_favorites"
            /\ ret' = <<>>
       ELSE /\ reply' = "favorites"
            /\ ret' = LoadedFavorites(u)
    /\ calls' = 0
    /\ failed' = 0
    /\ UNCHANGED <<bot, aux, unreadable, now, newsFile, usersFile,
                   favoritesFile, subscriptionsFile, last_news_cache, shown,
                   origin, lastToggle, digest>>

\* callback data is "save_<n>" (kind "plain"), "save_filtered_<n>" or
\* "save_category_<n>"; int(parts[1]) raises ValueError for the last two
ButtonKinds == {"plain", "filtered", "category"}

button_callback(u, kind, n) ==
    /\ bot = "NewsBot"
    /\ LET news_list == LoadNews.news IN
       IF kind # "plain"
       THEN /\ reply' = "error"
            /\ UNCHANGED <<usersFile, unreadable>>
       ELSE IF ~(n <= Len(news_list))
       THEN /\ reply' = "none"
            /\ UNCHANGED <<usersFile, unreadable>>
       ELSE IF ~PyIndexable(news_list, n)
       THEN /\ reply' = "error"
            /\ UNCHANGED <<usersFile, unreadable>>
       ELSE LET news_to_save == PyIndex(news_list, n) IN
            IF AlreadySaved(LoadedFavorites(u), news_to_save)
            THEN /\ reply' = "exists"
                 /\ UNCHANGED <<usersFile, unreadable>>
            ELSE /\ Len(LoadedFavorites(u)) < MaxFav
                 /\ usersFile' = AddFavorite(u, news_to_save)
                 /\ unreadable' = unreadable \ {UsersJson}
                 /\ reply' = "saved"
    /\ calls' = 0
    /\ failed' = 0
    /\ UNCHANGED <<bot, aux, now, newsFile, favoritesFile, subscriptionsFile,
                   last_news_cache, shown, ret, origin, lastToggle, digest>>

daily_command(u) ==
    /\ bot = "NewsBot"
    /\ LET subscribers == LoadUsers.subscribers IN
       IF IsSubscribed(u, subscribers)
       THEN /\ usersFile' = [LoadUsers EXCEPT
                               !.subscribers = RemoveFirst(subscribers, u)]
            /\ reply' = "unsubscribed"
            /\ lastToggle' = [lastToggle EXCEPT ![u] = "unsubscribed"]
       ELSE /\ usersFile' = [LoadUsers EXCEPT
                               !.subscribers = Append(subscribers, u)]
            /\ reply' = "subscribed"
            /\ lastToggle' = [lastToggle EXCEPT ![u] = "subscribed"]
    /\ unreadable' = unreadable \ {UsersJson}
    /\ calls' = 0
    /\ failed' = 0
    /\ UNCHANGED <<bot, aux, now, newsFile, favoritesFile, subscriptionsFile,
                   last_news_cache, shown, ret, origin, digest>>

----------------------------------------------------------------------------
(* NewsScheduler.send_daily_digest (src/scheduler.py), a separate process   *)
(* that reads users.json and news.json                                      *)

ListSubscribers == LoadUsers.subscribers

\* the text built from news_list[:5]: a heading, one entry per item, a footer
Compose(news_list) ==
    <<"heading">> \o [i \in 1..Len(Take(news_list, DigestItems)) |->
                        news_list[i].title] \o <<"footer">>

\* the for loop over subscribers stopping at the first failed send_message
RECURSIVE DeliverUntilFailure(_, _, _, _)
DeliverUntilFailure(subscribers, i, down, acc) ==
    IF i > Len(subscribers) THEN acc
    ELSE IF subscribers[i] \in down
    THEN [acc EXCEPT !.attempted = Append(@, subscribers[i])]
    ELSE DeliverUntilFailure(subscribers, i + 1, down,
             [attempted |-> Append(acc.attempted, subscribers[i]),
              delivered |-> Append(acc.delivered, subscribers[i])])

\* for user_id in subscribers: try send_message except Exception: log;
\* down is the set of chats send_message raises for
RECURSIVE Deliver(_, _, _, _)
Deliver(subscribers, i, down, acc) ==
    IF i > Len(subscribers) THEN acc
    ELSE IF subscribers[i] \in down
    THEN Deliver(subscribers, i + 1, down,
             [acc EXCEPT !.attempted = Append(@, subscribers[i])])
    ELSE Deliver(subscribers, i + 1, down,
             [attempted |-> Append(acc.attempted, subscribers[i]),
              delivered |-> Append(acc.delivered, subscribers[i])])

\* the broadcast returning on an empty subscriber list only
SkipsWithoutSubscribers(subscribers, news_list) == subscribers = <<>>

\* if not subscribers: return ... if not news_list: return
SkipsBroadcast(subscribers, news_list) ==
    subscribers = <<>> \/ news_list = <<>>

Broadcast(down) ==
    /\ bot = "NewsBot"
    /\ LET subscribers == ListSubscribers
           news_list == LoadNews.news
           sent == Deliver(subscribers, 1, down,
                           [attempted |-> <<>>, delivered |-> <<>>])
       IN  digest' =
             IF SkipsBroadcast(subscribers, news_list)
             THEN NothingSent(subscribers)
             ELSE [subscribers |-> subscribers,
                   attempted |-> sent.attempted,
                   delivered |-> sent.delivered,
                   items |-> Take(news_list, DigestItems),
                   text |-> Compose(news_list)]
    /\ reply' = "digest"
    /\ calls' = 0
    /\ failed' = 0
    /\ UNCHANGED <<bot, denied, inflight, unreadable, now, newsFile, usersFile,
                   favoritesFile, subscriptionsFile, last_news_cache, shown,
                   ret, origin, lastToggle>>

\* one call of send_daily_digest, the position of the loop left aside
DailyDigest(down) == Broadcast(down) /\ UNCHANGED sched

send_daily_digest == \E down \in SUBSET Users : DailyDigest(down)

----------------------------------------------------------------------------
(* NewsScheduler.run_scheduler (src/scheduler.py): the loop that samples    *)
(* the wall clock.  Time is in seconds.  The except branch of the loop is   *)
(* not an action: send_daily_digest catches Exception itself, and neither   *)
(* datetime.now() nor the comparison raises.                                *)

SleepIdle == 30         \* await asyncio.sleep(30)
SleepAfterSend == 60    \* await asyncio.sleep(60)
TargetHour == 9         \* time(9, 0)
TargetMinute == 0
Day == 24 * 3600
Unit == SleepIdle \div 2          \* the grain of the start time and of a send
MaxSend == 4            \* a short broadcast lasts up to this many grains
MaxDays == 2            \* the loop is followed for this many days
MaxSendDays == 1        \* a broadcast lasts at most this many days

Hour(t) == (t % Day) \div 3600
Minute(t) == (t % 3600) \div 60

\* current_time.hour == target_time.hour and current_time.minute ==
\* target_time.minute
AtTarget(t) == Hour(t) = TargetHour /\ Minute(t) = TargetMinute

StartTimes == {k * Unit : k \in 0..(Day \div Unit - 1)}
\* a broadcast lasts up to MaxSend grains, or a number of whole hours
SendDurations ==
    {k * Unit : k \in 0..MaxSend} \cup {h * 3600 : h \in 1..(24 * MaxSendDays)}

\* asyncio.run(scheduler.run_scheduler()) at second t0 of the day
run_scheduler(t0) ==
    /\ bot = "NewsBot"
    /\ sched.pc = "stopped"
    /\ sched' = [sched EXCEPT !.pc = "running", !.clock = t0]
    /\ UNCHANGED <<bot, denied, inflight, unreadable, now, newsFile, usersFile,
                   favoritesFile, subscriptionsFile, last_news_cache, shown,
                   reply, ret, calls, failed, origin, lastToggle, digest>>

\* an iteration outside the target minute: sleep 30 seconds
scheduler_sleep ==
    /\ sched.pc = "running"
    /\ sched.clock < MaxDays * Day
    /\ ~AtTarget(sched.clock)
    /\ sched' = [sched EXCEPT !.clock = @ + SleepIdle]
    /\ UNCHANGED <<bot, denied, inflight, unreadable, now, newsFile, usersFile,
                   favoritesFile, subscriptionsFile, last_news_cache, shown,
                   reply, ret, calls, failed, origin, lastToggle, digest>>

\* an iteration in the target minute: the broadcast, which lasts d seconds,
\* then sleep 60 seconds
scheduler_fire(d, down) ==
    /\ sched.pc = "running"
    /\ sched.clock < MaxDays * Day
    /\ AtTarget(sched.clock)
    /\ Broadcast(down)
    /\ sched' = [sched EXCEPT !.clock = @ + d + SleepAfterSend,
                              !.lastFire = sched.clock]

----------------------------------------------------------------------------------------------------------------------------------------------------
(* The environment of the store files and of the process (src/bot.py)      *)

StoreFiles == {NewsJson, UsersJson}

\* open or json.load starts to raise FileNotFoundError / JSONDecodeError for
\* a file (it was moved away, or is being rewritten by another program)
load_fails(f) ==
    /\ bot = "NewsBot"
    /\ f \notin unreadable
    /\ unreadable' = unreadable \cup {f}
    /\ UNCHANGED <<bot, aux, now, newsFile, usersFile, favoritesFile,
                   subscriptionsFile, last_news_cache, shown, reply, ret,
                   calls, failed, origin, lastToggle, digest>>

\* the file is back with the content it had
load_recovers(f) ==
    /\ bot = "NewsBot"
    /\ f \in unreadable
    /\ unreadable' = unreadable \ {f}
    /\ UNCHANGED <<bot, aux, now, newsFile, usersFile, favoritesFile,
                   subscriptionsFile, last_news_cache, shown, reply, ret,
                   calls, failed, origin, lastToggle, digest>>

\* the files a variant reads its favorites and its news from
ReadFiles == IF bot = "SimpleNewsBot" THEN {FavoritesJson} ELSE StoreFiles

\* reading a file starts to raise an exception that is neither
\* FileNotFoundError nor JSONDecodeError (PermissionError, or the
\* UnicodeDecodeError of a file cut inside a multi-byte character)
read_denied(f) ==
    /\ f \in ReadFiles
    /\ f \notin denied
    /\ denied' = denied \cup {f}
    /\ UNCHANGED <<bot, inflight, sched, unreadable, now, newsFile, usersFile,
                   favoritesFile, subscriptionsFile, last_news_cache, shown,
                   reply, ret, calls, failed, origin, lastToggle, digest>>

read_allowed(f) ==
    /\ f \in denied
    /\ denied' = denied \ {f}
    /\ UNCHANGED <<bot, inflight, sched, unreadable, now, newsFile, usersFile,
                   favoritesFile, subscriptionsFile, last_news_cache, shown,
                   reply, ret, calls, failed, origin, lastToggle, digest>>

\* the process is stopped and started again: __init__ and _init_data_files
\* leave existing files as they are, nothing was held in memory
restart ==
    /\ bot = "NewsBot"
    /\ reply # "none"
    /\ reply' = "none"
    /\ ret' = <<>>
    /\ calls' = 0
    /\ failed' = 0
    /\ UNCHANGED <<bot, aux, unreadable, now, newsFile, usersFile,
                   favoritesFile, subscriptionsFile, last_news_cache, shown,
                   origin, lastToggle, digest>>

----
(* news_command with the write of news.json in two steps: _save_data opens  *)
(* the file with mode 'w', which empties it, and json.dump and the close    *)
(* put the new content there.  The scheduler process can read in between.   *)

AllIdle == \A v \in Users : inflight[v].pc = "idle"

\* _update_news from the load to the open(file_path, 'w') of _save_data
save_data_open(u, r) ==
    /\ bot = "NewsBot"
    /\ AllIdle
    /\ Stale
    /\ inflight' = [inflight EXCEPT
                      ![u] = [Idle EXCEPT !.pc = "writing", !.fetched = r,
                                          !.stamp = now]]
    /\ unreadable' = unreadable \cup {NewsJson}
    /\ UNCHANGED <<bot, denied, sched, now, newsFile, usersFile, favoritesFile,
                   subscriptionsFile, last_news_cache, shown, reply, ret,
                   calls, failed, origin, lastToggle, digest>>

\* json.dump, the close, and the rest of news_command
save_data_close(u) ==
    /\ bot = "NewsBot"
    /\ inflight[u].pc = "writing"
    /\ LET r == inflight[u].fetched IN
         /\ newsFile' = [last_update |-> inflight[u].stamp, news |-> r.news]
         /\ ret' = r.news
         /\ calls' = r.calls
         /\ failed' = r.failed
         /\ origin' = IF r.provided THEN "provider" ELSE "sample"
    /\ unreadable' = unreadable \ {NewsJson}
    /\ inflight' = [inflight EXCEPT ![u] = Idle]
    /\ IF ret' = <<>>
       THEN /\ reply' = "unavailable"
            /\ UNCHANGED shown
       ELSE /\ reply' = "news"
            /\ shown' = [shown EXCEPT ![u] = Take(ret', NewsShown)]
    /\ UNCHANGED <<bot, denied, sched, now, usersFile, favoritesFile,
                   subscriptionsFile, last_news_cache, lastToggle, digest>>

----------------------------------------------------------------------------
(* news_command of full_webhook_bot.py with _update_news in two steps.  The *)
(* Flask server started by app.run serves every webhook request on a thread *)
(* of its own, each with an event loop of its own, and nothing locks        *)
(* news.json; the NewsBot of bot.py runs under run_polling, which handles   *)
(* one update at a time.                                                    *)

\* _update_news from the load to the return of _fetch_news: the cache was
\* found stale and the provider was queried
webhook_update_begin(u, r) ==
    /\ bot = "WebhookNewsBot"
    /\ inflight[u].pc = "idle"
    /\ NewsJson \notin denied
    /\ Stale
    /\ inflight' = [inflight EXCEPT
                      ![u] = [Idle EXCEPT !.pc = "fetching", !.fetched = r,
                                          !.stamp = now]]
    /\ UNCHANGED <<bot, denied, sched, unreadable, now, newsFile, usersFile,
                   favoritesFile, subscriptionsFile, last_news_cache, shown,
                   reply, ret, calls, failed, origin, lastToggle, digest>>

\* the assignment of news and last_update, _save_data, and the rest of
\* news_command
webhook_update_end(u) ==
    /\ bot = "WebhookNewsBot"
    /\ inflight[u].pc = "fetching"
    /\ LET r == inflight[u].fetched IN
         /\ newsFile' = [last_update |-> inflight[u].stamp, news |-> r.news]
         /\ ret' = r.news
         /\ calls' = r.calls
         /\ failed' = r.failed
         /\ origin' = IF r.provided THEN "provider" ELSE "sample"
    /\ unreadable' = unreadable \ {NewsJson}
    /\ inflight' = [inflight EXCEPT ![u] = Idle]
    /\ IF ret' = <<>>
       THEN /\ reply' = "unavailable"
            /\ UNCHANGED shown
       ELSE /\ reply' = "news"
            /\ shown' = [shown EXCEPT ![u] = Take(ret', NewsShown)]
    /\ UNCHANGED <<bot, denied, sched, now, usersFile, favoritesFile,
                   subscriptionsFile, last_news_cache, lastToggle, digest>>

\* _update_news that finds the cache fresh, and the rest of news_command
webhook_cache_hit(u) ==
    /\ inflight[u].pc = "idle"
    /\ ~Stale
    /\ webhook_news_command(u, NoCall)

----------------------------------------------------------------------------
(* SimpleNewsBot (src/simple_sync_webhook_bot.py)                           *)
(* _update_user_stats and the saved_at stamp are not modelled.              *)

\* every order random.shuffle can leave a list in
RECURSIVE PermSeqs(_)
PermSeqs(s) ==
    IF s = <<>> THEN {<<>>}
    ELSE UNION {{<<s[i]>> \o p :
                   p \in PermSeqs(SubSeq(s, 1, i - 1) \o SubSeq(s, i + 1, Len(s)))}
                : i \in 1..Len(s)}

\* categories[:3] after the shuffle
Picks ==
    {p \in [1..SimplePick -> SimpleCategories] :
        \A i, j \in 1..SimplePick : p[i] = p[j] => i = j}

\* the for loop over the picked categories
RECURSIVE SimpleCategoryLoop(_, _, _, _)
SimpleCategoryLoop(w, pick, i, acc) ==
    IF i > Len(pick) THEN acc
    ELSE LET c == pick[i] IN
         IF ~w[c].ok
         THEN [acc EXCEPT !.calls = @ + 1, !.failed = @ + 1, !.aborted = TRUE]
         ELSE SimpleCategoryLoop(w, pick, i + 1,
                  [acc EXCEPT !.calls = @ + 1,
                              !.news = @ \o NormalizeAll(w[c].articles,
                                                         CategoryLabel(c))])

\* get_news up to the final shuffle
SimpleCollect(w, pick) ==
    LET c == SimpleCategoryLoop(w, pick, 1,
                 [news |-> <<>>, calls |-> 0, failed |-> 0, aborted |-> FALSE])
        useTop == ~c.aborted /\ Len(c.news) < MinNews
        merged == IF useTop /\ w["top"].ok
                  THEN MergeGeneral(w["top"].articles, c.news, SimpleMaxBatch)
                  ELSE c.news
    IN  [news     |-> IF c.aborted THEN SimpleTestNews ELSE merged,
         calls    |-> c.calls + (IF useTop THEN 1 ELSE 0),
         failed   |-> c.failed + (IF useTop /\ ~w["top"].ok THEN 1 ELSE 0),
         usable   |-> Len(merged),
         provided |-> ~c.aborted]

\* get_news: the results the shuffles can produce in provider world w
GetNews(w) ==
    UNION {LET c == SimpleCollect(w, pick) IN
           IF c.provided
           THEN {[c EXCEPT !.news = Take(p, SimpleReturn)] : p \in PermSeqs(c.news)}
           ELSE {c}
           : pick \in Picks}

GetNewsOutcomes == UNION {GetNews(w) : w \in Worlds}

SimpleFavorites(u) == Get(favoritesFile, Str(u), <<>>)

\* _load_favorites: except Exception: return {}
LoadFavorites == IF FavoritesJson \in denied THEN <<>> ELSE favoritesFile

\* _filter_saved_news
FilterSavedNews(news_list, u) ==
    IF Str(u) \notin DOMAIN LoadFavorites THEN news_list
    ELSE LET saved_titles == TitlesOf(LoadFavorites[Str(u)])
         IN  SelectSeq(news_list, LAMBDA x : x.title \notin saved_titles)

Cached(list) == [present |-> TRUE, list |-> list]

handle_news_command(u, o) ==
    /\ bot = "SimpleNewsBot"
    /\ ret' = o.news
    /\ calls' = o.calls
    /\ failed' = o.failed
    /\ LET news_list == o.news
           filtered_news == FilterSavedNews(news_list, u)
       IN  IF news_list = <<>>
           THEN /\ reply' = "unavailable"
                /\ UNCHANGED <<last_news_cache, shown>>
           ELSE IF filtered_news = <<>>
           THEN /\ reply' = "all_saved"
                /\ UNCHANGED <<last_news_cache, shown>>
           ELSE /\ last_news_cache' =
                     [last_news_cache EXCEPT
                        ![u] = Cached(Take(filtered_news, SimpleShown))]
                /\ shown' = [shown EXCEPT
                               ![u] = Take(filtered_news, SimpleShown)]
                /\ reply' = "news"
    /\ UNCHANGED <<bot, aux, unreadable, now, newsFile, usersFile, favoritesFile,
                   subscriptionsFile, origin, lastToggle, digest>>

handle_filter_command(u, word, o) ==
    /\ bot = "SimpleNewsBot"
    /\ ret' = o.news
    /\ calls' = o.calls
    /\ failed' = o.failed
    /\ LET news_list == o.news
           filtered_news == Filtered(news_list, word)
       IN  IF news_list = <<>>
           THEN /\ reply' = "unavailable"
                /\ UNCHANGED shown
           ELSE IF filtered_news = <<>>
           THEN /\ reply' = "not_found"
                /\ UNCHANGED shown
           ELSE /\ shown' = [shown EXCEPT
                               ![u] = Take(filtered_news, FilterShown)]
                /\ reply' = "filter"
    /\ UNCHANGED <<bot, aux, unreadable, now, newsFile, usersFile, favoritesFile,
                   subscriptionsFile, last_news_cache, origin, lastToggle,
                   digest>>

\* handle_favorites_command
handle_favorites_command(u) ==
    /\ bot = "SimpleNewsBot"
    /\ LET user_favorites == Get(LoadFavorites, Str(u), <<>>)
       IN  IF user_favorites = <<>>
           THEN /\ reply' = "no_favorites"
                /\ ret' = <<>>
           ELSE /\ reply' = "favorites"
                /\ ret' = user_favorites
    /\ calls' = 0
    /\ failed' = 0
    /\ UNCHANGED <<bot, aux, unreadable, now, newsFile, usersFile,
                   favoritesFile, subscriptionsFile, last_news_cache, shown,
                   origin, lastToggle, digest>>

\* handle_save_command; o is what get_news returns if it is called
handle_save_command(u, n, o) ==
    /\ bot = "SimpleNewsBot"
    /\ LET hit == last_news_cache[u].present
           news_list == IF hit THEN last_news_cache[u].list ELSE o.news
           cache1 == IF ~hit /\ news_list # <<>>
                     THEN [last_news_cache EXCEPT
                             ![u] = Cached(Take(news_list, SimpleShown))]
                     ELSE last_news_cache
       IN  /\ last_news_cache' = cache1
           /\ calls' = IF hit THEN 0 ELSE o.calls
           /\ failed' = IF hit THEN 0 ELSE o.failed
           /\ ret' = IF hit THEN ret ELSE o.news
           /\ IF news_list = <<>> \/ n < 1 \/ n > Len(news_list)
              THEN /\ reply' = "invalid"
                   /\ UNCHANGED favoritesFile
              ELSE LET news_to_save == news_list[n] IN
                   IF AlreadySaved(SimpleFavorites(u), news_to_save)
                   THEN /\ reply' = "exists"
                        /\ UNCHANGED favoritesFile
                   ELSE /\ Len(SimpleFavorites(u)) < MaxFav
                        /\ favoritesFile' =
                             Put(favoritesFile, Str(u),
                                 Append(SimpleFavorites(u), news_to_save))
                        /\ reply' = "saved"
    /\ UNCHANGED <<bot, aux, unreadable, now, newsFile, usersFile, subscriptionsFile, shown,
                   origin, lastToggle, digest>>

\* handle_callback_query for the save buttons: "save_filtered_<n>" also
\* starts with "save_", and int("filtered") raises ValueError
handle_callback_query(u, kind, n, o) ==
    IF kind = "plain"
    THEN handle_save_command(u, n, o)
    ELSE /\ bot = "SimpleNewsBot"
         /\ reply' = "error"
         /\ calls' = 0
         /\ failed' = 0
         /\ UNCHANGED <<bot, aux, unreadable, now, newsFile, usersFile, favoritesFile,
                        subscriptionsFile, last_news_cache, shown, ret,
                        origin, lastToggle, digest>>

\* _subscribe_to_daily and _unsubscribe_from_daily (the two /daily buttons)
Subscription(u) == Get(subscriptionsFile, Str(u), [subscribed |-> FALSE])

subscribe_to_daily(u) ==
    /\ bot = "SimpleNewsBot"
    /\ subscriptionsFile' =
         Put(subscriptionsFile, Str(u),
             [subscribed |-> TRUE, subscribed_at |-> now, last_sent |-> None])
    /\ reply' = "subscribed"
    /\ calls' = 0
    /\ failed' = 0
    /\ UNCHANGED <<bot, aux, unreadable, now, newsFile, usersFile, favoritesFile,
                   last_news_cache, shown, ret, origin, lastToggle, digest>>

unsubscribe_from_daily(u) ==
    /\ bot = "SimpleNewsBot"
    /\ subscriptionsFile' =
         IF Str(u) \in DOMAIN subscriptionsFile
         THEN Put(subscriptionsFile, Str(u),
                  [x \in DOMAIN subscriptionsFile[Str(u)] \cup {"unsubscribed_at"}
                     |-> CASE x = "subscribed"      -> FALSE
                           [] x = "unsubscribed_at" -> now
                           [] OTHER -> subscriptionsFile[Str(u)][x]])
         ELSE subscriptionsFile
    /\ reply' = "unsubscribed"
    /\ calls' = 0
    /\ failed' = 0
    /\ UNCHANGED <<bot, aux, unreadable, now, newsFile, usersFile, favoritesFile,
                   last_news_cache, shown, ret, origin, lastToggle, digest>>

----------------------------------------------------------------------------------------------------------------------------------------------------
(* handle_save_command with the read and the write of favorites.json as two *)
(* steps.  The Flask development server started by app.run serves every     *)
(* webhook request on a thread of its own, so requests can interleave.      *)

\* handle_save_command up to _load_favorites and the title loop, for a
\* number that is valid in the cached list and a title not yet saved
load_favorites(u, n) ==
    /\ bot = "SimpleNewsBot"
    /\ inflight[u].pc = "idle"
    /\ last_news_cache[u].present
    /\ n >= 1
    /\ n <= Len(last_news_cache[u].list)
    /\ LET news_to_save == last_news_cache[u].list[n] IN
         /\ ~AlreadySaved(SimpleFavorites(u), news_to_save)
         /\ Len(SimpleFavorites(u)) < MaxFav
         /\ inflight' = [inflight EXCEPT
                           ![u] = [Idle EXCEPT !.pc = "loaded",
                                               !.favorites = favoritesFile,
                                               !.item = news_to_save]]
    /\ UNCHANGED <<bot, denied, sched, unreadable, now, newsFile, usersFile,
                   favoritesFile, subscriptionsFile, last_news_cache, shown,
                   reply, ret, calls, failed, origin, lastToggle, digest>>

\* favorites[user_id_str].append(news_to_save); _save_favorites(favorites)
save_favorites(u) ==
    /\ bot = "SimpleNewsBot"
    /\ inflight[u].pc = "loaded"
    /\ LET favorites == inflight[u].favorites IN
         favoritesFile' =
           Put(favorites, Str(u),
               Append(Get(favorites, Str(u), <<>>), inflight[u].item))
    /\ inflight' = [inflight EXCEPT ![u] = Idle]
    /\ reply' = "saved"
    /\ calls' = 0
    /\ failed' = 0
    /\ UNCHANGED <<bot, denied, sched, unreadable, now, newsFile, usersFile,
                   subscriptionsFile, last_news_cache, shown, ret, origin,
                   lastToggle, digest>>

----
(* Specifications.  Next is every request the environment can issue with    *)
(* every provider answer of Worlds.  The specifications below restrict the  *)
(* requests and the provider worlds to those a family of properties is      *)
(* about; the handlers are the same.                                        *)

NewsBotNext ==
    \/ \E u \in Users, r \in FetchOutcomes : news_command(u, r)
    \/ \E u \in Users, word \in Keywords, e \in SearchOutcomes :
          filter_command(u, word, e)
    \/ \E u \in Users, o \in CategoryOutcomes : category_command(u, o)
    \/ \E u \in Users, n \in Numbers : save_command(u, n)
    \/ \E u \in Users, kind \in ButtonKinds, n \in Numbers :
          button_callback(u, kind, n)
    \/ \E u \in Users : daily_command(u)
    \/ send_daily_digest

SimpleNewsBotNext ==
    \/ \E u \in Users, o \in GetNewsOutcomes : handle_news_command(u, o)
    \/ \E u \in Users, word \in Keywords, o \in GetNewsOutcomes :
          handle_filter_command(u, word, o)
    \/ \E u \in Users, kind \in ButtonKinds, n \in Numbers,
          o \in GetNewsOutcomes : handle_callback_query(u, kind, n, o)
    \/ \E u \in Users, n \in Numbers, o \in GetNewsOutcomes :
          handle_save_command(u, n, o)
    \/ \E u \in Users : subscribe_to_daily(u)
    \/ \E u \in Users : unsubscribe_from_daily(u)

WebhookNewsBotNext ==
    \E u \in Users, r \in WebhookFetchOutcomes : webhook_news_command(u, r)

Next == Tick \/ NewsBotNext \/ SimpleNewsBotNext \/ WebhookNewsBotNext

Spec == Init /\ [][Next]_vars

\* provider worlds of the save and view specifications
WFull == World(Ok(<<rA, rRemoved>>), Ok(<<rA>>), Ok(<<>>),
               Ok(<<rNoTitle, rA, rB>>), Fail)
WTop == World(Ok(<<>>), Ok(<<>>), Ok(<<>>), Ok(<<rNoTitle, rA, rB>>),
              Ok(<<rB, rNoDesc>>))
WDown == World(Fail, Fail, Fail, Fail, Fail)

\* the refresh cache: /news of both variants under every provider world
NextCache ==
    \/ Tick
    \/ \E u \in Users, r \in FetchOutcomes : news_command(u, r)
    \/ \E u \in Users, o \in GetNewsOutcomes : handle_news_command(u, o)
    \/ \E u \in Users, r \in WebhookFetchOutcomes : webhook_news_command(u, r)

SpecCache == Init /\ [][NextCache]_vars

\* get_news results of the save specification: the aggregate query answers
SaveOutcomes == GetNews(WTop)

\* handle_save_command calls get_news only for a chat without a cached list
Fetched(u) == IF last_news_cache[u].present THEN {NoCall} ELSE SaveOutcomes

\* the number of "save_filtered_<n>" and "save_category_<n>" is never parsed
ButtonNumbers(kind) == IF kind = "plain" THEN Numbers ELSE {1}

\* /news and the save paths of both variants
NextSave ==
    \/ Tick /\ bot = "NewsBot"
    \/ \E u \in Users, r \in {FetchNews(WFull), FetchNews(WTop)} :
          news_command(u, r)
    \/ \E u \in Users, n \in Numbers : save_command(u, n)
    \/ \E u \in Users, kind \in ButtonKinds :
          \E n \in ButtonNumbers(kind) : button_callback(u, kind, n)
    \/ \E u \in Users, o \in SaveOutcomes : handle_news_command(u, o)
    \/ \E u \in Users, n \in Numbers :
          \E o \in Fetched(u) : handle_save_command(u, n, o)
    \/ \E u \in Users, kind \in ButtonKinds :
          \E n \in ButtonNumbers(kind), o \in Fetched(u) :
             handle_callback_query(u, kind, n, o)

SpecSave == Init /\ [][NextSave]_vars

\* the three NewsBot views and /save
NextView ==
    \/ \E u \in Users, r \in {FetchNews(WFull), FetchNews(WTop)} :
          news_command(u, r)
    \/ \E u \in Users, word \in Keywords,
          e \in {SearchNewsApi(WFull), SearchNewsApi(WTop)} :
          filter_command(u, word, e)
    \/ \E u \in Users, o \in CategoryOutcomes : category_command(u, o)
    \/ \E u \in Users, n \in Numbers : save_command(u, n)

SpecView == Init /\ [][NextView]_vars

\* the subscriber list of users.json: /daily, the other writer of the file
\* (/save) and the digest broadcast that reads it
NextSubs ==
    \/ \E u \in Users, r \in {FetchNews(WFull), FetchNews(WDown)} :
          news_command(u, r)
    \/ \E u \in Users, n \in 1..2 : save_command(u, n)
    \/ \E u \in Users : daily_command(u)
    \/ send_daily_digest

SpecSubs == Init /\ [][NextSubs]_vars

----------------------------------------------------------------------------
(* Properties of the refresh cache (SpecCache) *)

\* C1: stale fallback.  When the cached batch is non-empty and came from the
\* provider, and every provider call of a later refresh fails, _update_news
\* returns that batch and leaves it stored.
StaleFallback ==
    [][\A u \in Users, r \in FetchOutcomes :
         (/\ news_command(u, r)
          /\ Stale
          /\ origin = "provider"
          /\ newsFile.news # <<>>
          /\ r.calls > 0
          /\ r.failed = r.calls)
         => (ret' = newsFile.news /\ newsFile'.news = newsFile.news)]_vars

\* C2: when every provider call fails or the provider returns nothing usable
\* and no batch is cached, the batch returned is the built-in sample batch of
\* the variant, never the empty sequence.
SampleWhenEmpty ==
    [][\A u \in Users :
         /\ \A r \in FetchOutcomes :
              (/\ news_command(u, r)
               /\ Stale
               /\ newsFile.news = <<>>
               /\ (r.failed = r.calls \/ r.usable = 0))
              => (ret' = TestNews /\ ret' # <<>>)
         /\ \A o \in GetNewsOutcomes :
              (/\ handle_news_command(u, o)
               /\ (o.failed = o.calls \/ o.usable = 0))
              => (ret' = SimpleTestNews /\ ret' # <<>>)]_vars

\* C17: when the provider answers every query without a usable article and
\* no batch is cached, the batch returned has exactly two items and is the
\* two-item sample batch, in the NewsBot of bot.py, in the NewsBot of
\* full_webhook_bot.py and in SimpleNewsBot.get_news.
TwoItemSample ==
    [][\A u \in Users :
         /\ \A r \in FetchOutcomes :
              (/\ news_command(u, r)
               /\ Stale
               /\ newsFile.news = <<>>
               /\ r.failed = 0
               /\ r.usable = 0)
              => (Len(ret') = 2 /\ ret' = WebhookTestNews)
         /\ \A r \in WebhookFetchOutcomes :
              (/\ webhook_news_command(u, r)
               /\ Stale
               /\ newsFile.news = <<>>
               /\ r.failed = 0
               /\ r.usable = 0)
              => (Len(ret') = 2 /\ ret' = WebhookTestNews)
         /\ \A o \in GetNewsOutcomes :
              (/\ handle_news_command(u, o)
               /\ o.failed = 0
               /\ o.usable = 0)
              => (Len(ret') = 2 /\ ret' = SimpleTestNews)]_vars

\* C19: a refresh that got its batch from the provider without a failed
\* request stamps last_update with the current time, and a refresh that ended
\* with a provider error or with nothing usable, and so with the sample
\* batch, leaves last_update as it was, so that the next call refreshes again.
StampOnSuccessOnly ==
    [][\A u \in Users, r \in FetchOutcomes :
         (Stale /\ bot = "NewsBot" /\ news_command(u, r))
         => /\ (r.provided /\ r.failed = 0) => newsFile'.last_update = now
            /\ ~r.provided
               => (newsFile'.last_update = newsFile.last_update /\ Stale')]_vars

\* C3: dedup invariant.  Neither the cached batch nor a returned batch holds
\* two items with the same title.
DedupInvariant == NoDupTitles(newsFile.news) /\ NoDupTitles(ret)

\* C4: cache hit.  A call of _update_news made no later than 30 minutes after
\* the refresh that stamped last_update issues no provider request, returns
\* the batch the previous call returned and leaves news.json as it is.
CacheHit ==
    [][\A u \in Users, r \in FetchOutcomes :
         (/\ news_command(u, r)
          /\ newsFile.last_update # None
          /\ now - newsFile.last_update <= TTL)
         => (calls' = 0 /\ ret' = ret /\ newsFile' = newsFile)]_vars

\* a /news answered from the cache exactly 30 minutes after the refresh
CacheHitWitness ==
    /\ bot = "NewsBot"
    /\ reply = "news"
    /\ calls = 0
    /\ newsFile.last_update # None
    /\ now = newsFile.last_update + TTL
    /\ ret = newsFile.news
    /\ ret # <<>>

----------------------------------------------------------------------------
(* Properties of the save paths (SpecSave, SpecView).  Store reads and      *)
(* writes succeed and handlers run one at a time.                           *)

\* the list handle_save_command resolves a number against: the list cached
\* for the chat, or what get_news returns when there is none
SimpleResolved(u, o) ==
    IF last_news_cache[u].present THEN last_news_cache[u].list ELSE o.news

\* the step answers "saved" and appends item when its title is new, and
\* answers "exists" and changes nothing when the title is already there
SavedThenExists(before, after, item) ==
    IF HasTitle(before, item.title)
    THEN reply' = "exists" /\ after = before
    ELSE reply' = "saved" /\ after = Append(before, item)

\* C5: saving a title the user has not saved answers Saved and appends it,
\* saving a title the user already has answers AlreadyExists and changes
\* nothing, on /save and on the save button of both variants; in every state
\* no favorites list holds two entries with the same title.
SaveOnce ==
    /\ [](\A u \in Users :
            NoDupTitles(Favorites(u)) /\ NoDupTitles(SimpleFavorites(u)))
    /\ [][\A u \in Users, n \in 1..MaxIdx :
            /\ (/\ n <= Len(newsFile.news)
                /\ (save_command(u, n) \/ button_callback(u, "plain", n)))
               => SavedThenExists(Favorites(u), Favorites(u)',
                                  newsFile.news[n])
            /\ \A o \in Fetched(u) :
                 (/\ n <= Len(SimpleResolved(u, o))
                  /\ (\/ handle_save_command(u, n, o)
                      \/ handle_callback_query(u, "plain", n, o)))
                 => SavedThenExists(SimpleFavorites(u), SimpleFavorites(u)',
                                    SimpleResolved(u, o)[n])]_vars

\* a second save of a title was answered AlreadyExists and the list holds
\* the title once, although the cached batch offers it at two positions
SaveOnceWitness ==
    /\ reply = "exists"
    /\ \E u \in Users :
         \/ /\ bot = "NewsBot"
            /\ Len(Favorites(u)) = 1
            /\ \E i, j \in 1..Len(newsFile.news) :
                 /\ i # j
                 /\ newsFile.news[i].title = Favorites(u)[1].title
                 /\ newsFile.news[j].title = Favorites(u)[1].title
         \/ /\ bot = "SimpleNewsBot"
            /\ Len(SimpleFavorites(u)) = 1
            /\ last_news_cache[u].present
            /\ HasTitle(last_news_cache[u].list, SimpleFavorites(u)[1].title)

\* replies of a save step that saved nothing and said so, or said nothing
Rejected == {"invalid", "none", "error"}

\* C6: a save number that is 0, negative or greater than the length of the
\* list it is resolved against is rejected and the favorites store is left
\* as it was, on /save and on the save button of both variants.
OutOfRangeRejected ==
    [][\A u \in Users, n \in Numbers :
         /\ (save_command(u, n) /\ (n < 1 \/ n > Len(newsFile.news)))
            => (reply' = "invalid" /\ usersFile' = usersFile)
         /\ (/\ button_callback(u, "plain", n)
             /\ (n < 1 \/ n > Len(newsFile.news)))
            => (reply' \in Rejected /\ usersFile' = usersFile)
         /\ \A o \in Fetched(u) :
              (/\ \/ handle_save_command(u, n, o)
                  \/ handle_callback_query(u, "plain", n, o)
               /\ (n < 1 \/ n > Len(SimpleResolved(u, o))))
              => (reply' = "invalid" /\ favoritesFile' = favoritesFile)]_vars

\* C7: a save of number n by a user resolves to the item at position n of
\* the list most recently shown to that user, whatever was shown to the same
\* user before and to other users in between.
NoStaleBinding ==
    [][\A u \in Users, n \in 1..MaxIdx :
         /\ (/\ n <= Len(shown[u])
             /\ (save_command(u, n) \/ button_callback(u, "plain", n)))
            => SavedThenExists(Favorites(u), Favorites(u)', shown[u][n])
         /\ \A o \in Fetched(u) :
              (/\ n <= Len(shown[u])
               /\ (\/ handle_save_command(u, n, o)
                   \/ handle_callback_query(u, "plain", n, o)))
              => SavedThenExists(SimpleFavorites(u), SimpleFavorites(u)',
                                 shown[u][n])]_vars

\* C8: when /save n by a user who has been shown a list answers Saved, n is
\* a position of the list most recently shown to that user by /news, /filter
\* or /category and the item appended to the favorites is the item shown at
\* that position.
SavesDisplayedItem ==
    [][\A u \in Users, n \in Numbers :
         (shown[u] # <<>> /\ save_command(u, n) /\ reply' = "saved")
         => (/\ n \in 1..Len(shown[u])
             /\ Favorites(u)' = Append(Favorites(u), shown[u][n]))]_vars

\* C9: a save by a chat for which no list was recorded is answered as an
\* invalid reference, without a provider call, without recording a list and
\* without a change of the favorites.
NoListNoSave ==
    [][\A u \in Users, n \in Numbers, o \in SaveOutcomes :
         (~last_news_cache[u].present /\ handle_save_command(u, n, o))
         => (/\ reply' = "invalid"
             /\ calls' = 0
             /\ last_news_cache' = last_news_cache
             /\ favoritesFile' = favoritesFile)]_vars

----------------------------------------------------------------------------
(* Properties of the subscriber list (SpecSubs) *)

\* the users whose last /daily answered that they are subscribed
Subscribed == {u \in Users : lastToggle[u] = "subscribed"}

\* C10: /daily flips the membership of the caller and of nobody else, so two
\* toggles restore the subscriber set; the subscriber list of users.json,
\* and the list a digest broadcast reads from it, is always the set of users
\* whose last toggle subscribed them.
ToggleSubscribers ==
    /\ [](Range(ListSubscribers) = Subscribed)
    /\ [][\A u \in Users :
            daily_command(u)
            => LET before == Range(usersFile.subscribers)
                   after == Range(usersFile'.subscribers)
               IN  /\ (u \in after) = (u \notin before)
                   /\ after \ {u} = before \ {u}]_vars
    /\ [][send_daily_digest
            => Range(digest'.subscribers) = Subscribed]_vars

\* a broadcast read the list after one user toggled twice and the other once
ToggleSubscribersWitness ==
    /\ reply = "digest"
    /\ digest.attempted # <<>>
    /\ \E u, v \in Users :
         /\ lastToggle[u] = "unsubscribed"
         /\ lastToggle[v] = "subscribed"
         /\ Range(digest.subscribers) = {v}

----------------------------------------------------------------------------
(* Properties of a refresh that interleaves with the scheduler (SpecTorn)   *)

\* the refresh in two steps, /daily, and the scheduler's broadcast
NextTorn ==
    \/ Tick /\ bot = "NewsBot" /\ AllIdle
    \/ \E u \in Users : AllIdle /\ daily_command(u)
    \/ \E u \in Users, r \in {FetchNews(WFull), FetchNews(WTop)} :
          save_data_open(u, r)
    \/ \E u \in Users : save_data_close(u)
    \/ send_daily_digest

SpecTorn == Init /\ [][NextTorn]_vars

\* C11: a broadcast that reads news.json while a refresh is under way reads
\* the batch stored before the refresh or the batch the refresh stores, never
\* an empty or partial one.  (That a failed refresh keeps the prior batch is
\* StaleFallback.)
NoTornRead ==
    [][(send_daily_digest /\ digest'.subscribers # <<>>)
       => digest'.items \in
            {Take(newsFile.news, DigestItems)}
            \cup {Take(inflight[u].fetched.news, DigestItems) :
                    u \in {v \in Users : inflight[v].pc = "writing"}}]_vars

----------------------------------------------------------------------------
(* Properties of concurrent saves (SpecRace) *)

\* /news and the saves of both variants; the saves of SimpleNewsBot in two
\* steps
NextRace ==
    \/ \E u \in Users, r \in {FetchNews(WFull), FetchNews(WTop)} :
          news_command(u, r)
    \/ \E u \in Users, n \in 1..MaxIdx : save_command(u, n)
    \/ \E u \in Users, o \in SaveOutcomes : handle_news_command(u, o)
    \/ \E u \in Users, n \in 1..MaxIdx : load_favorites(u, n)
    \/ \E u \in Users : save_favorites(u)

SpecRace == Init /\ [][NextRace]_vars

\* C12: a save that writes the store keeps every title the store held for
\* every user, so that the store holds the effect of all the saves whatever
\* their interleaving.
NoLostUpdate ==
    [][\A u, v \in Users :
         /\ save_favorites(u)
            => TitlesOf(SimpleFavorites(v)) \subseteq
                 TitlesOf(SimpleFavorites(v)')
         /\ (\E n \in 1..MaxIdx : save_command(u, n))
            => TitlesOf(Favorites(v)) \subseteq TitlesOf(Favorites(v)')]_vars

----------------------------------------------------------------------------
(* Properties under store read failures (SpecFault) *)

\* NewsBot requests, read failures of the two store files, restarts
NextFault ==
    \/ \E u \in Users : news_command(u, FetchNews(WTop))
    \/ \E u \in Users, n \in 1..MaxIdx : save_command(u, n)
    \/ \E u \in Users : daily_command(u)
    \/ \E f \in StoreFiles : load_fails(f)
    \/ \E f \in StoreFiles : load_recovers(f)
    \/ restart

SpecFault == Init /\ [][NextFault]_vars

\* C13: no step removes a title from any user's favorites in users.json:
\* not a save, a /daily toggle, a refresh or a restart, and not when a load
\* of a store file fails.
FavoritesDurable ==
    [][\A u \in Users :
         TitlesOf(Favorites(u)) \subseteq TitlesOf(Favorites(u)')]_vars

\* C28: a save by user u leaves the subscriber list and every other user's
\* favorites in users.json as they were, and a /daily toggle by u leaves all
\* favorites and every other user's membership in the subscriber list as
\* they were, also when the read of the file before it failed.
StoreFrame ==
    [][\A u \in Users :
         /\ (\E n \in 1..MaxIdx : save_command(u, n))
            => /\ usersFile'.subscribers = usersFile.subscribers
               /\ \A v \in Users \ {u} : Favorites(v)' = Favorites(v)
         /\ daily_command(u)
            => /\ usersFile'.favorites = usersFile.favorites
               /\ \A v \in Users \ {u} :
                     IsSubscribed(v, usersFile'.subscribers)
                        <=> IsSubscribed(v, usersFile.subscribers)]_vars

----------------------------------------------------------------------------
(* Properties of the digest broadcast (SpecSubs, SpecTorn) *)

\* C14: a broadcast calls send_message once for every subscriber it read, in
\* the order of the list, and delivers to every one of them whose send does
\* not fail, also to those listed after a subscriber whose send failed.
BroadcastIsolates ==
    [][\A down \in SUBSET Users :
         (DailyDigest(down) /\ digest'.text # <<>>)
         => /\ digest'.attempted = ListSubscribers
            /\ digest'.delivered =
                 SelectSeq(ListSubscribers, LAMBDA x : x \notin down)]_vars

\* the send to the first of two subscribers failed and the second got the
\* digest
BroadcastIsolatesWitness ==
    /\ reply = "digest"
    /\ Len(digest.attempted) = 2
    /\ digest.delivered = <<digest.attempted[2]>>

\* no element occurs twice in s
Distinct(s) == \A i, j \in 1..Len(s) : s[i] = s[j] => i = j

\* C30: the subscriber list never holds a user id twice, whatever /daily
\* toggles were made, so a digest broadcast calls send_message at most once
\* for each subscriber.
UniqueSubscribers ==
    /\ [](Distinct(usersFile.subscribers))
    /\ [][\A down \in SUBSET Users :
            DailyDigest(down)
            => /\ Distinct(digest'.attempted)
               /\ Distinct(digest'.delivered)]_vars

\* user 1 left and joined again behind user 2, and the broadcast served
\* each of the two once
UniqueSubscribersWitness ==
    /\ reply = "digest"
    /\ usersFile.subscribers = <<2, 1>>
    /\ digest.attempted = <<2, 1>>
    /\ digest.delivered = <<2, 1>>

\* the parts of a digest text that are entries of news items
ItemEntries(text) == IF Len(text) <= 2 THEN <<>> ELSE SubSeq(text, 2, Len(text) - 1)

\* C16 as stated: a broadcast to subscribers that finds no news composes a
\* non-blank "no news" text and sends it, and no blank text is ever sent.
NoNewsVariantSent ==
    [][\A down \in SUBSET Users :
         DailyDigest(down)
         => /\ (ListSubscribers # <<>> /\ LoadNews.news = <<>>)
               => (digest'.text # <<>> /\ digest'.attempted = ListSubscribers)
            /\ digest'.attempted # <<>> => digest'.text # <<>>]_vars

\* C16 as amended: a broadcast that finds no news composes nothing and calls
\* send_message for nobody, and every text that is sent has the heading, the
\* footer and an entry for at least one news item.
NoNewsNoDigest ==
    [][\A down \in SUBSET Users :
         DailyDigest(down)
         => /\ LoadNews.news = <<>>
               => (digest'.text = <<>> /\ digest'.attempted = <<>>)
            /\ digest'.attempted # <<>>
               => ItemEntries(digest'.text) # <<>>]_vars

\* a broadcast found subscribers and no news, and sent nothing
NoNewsNoDigestWitness ==
    /\ reply = "digest"
    /\ digest.subscribers # <<>>
    /\ newsFile.news = <<>>
    /\ digest.attempted = <<>>
    /\ digest.text = <<>>

----------------------------------------------------------------------------
(* Properties of the shape of a refresh (SpecFetch).  The provider honours  *)
(* pageSize: a category answer carries at most 3 articles, the aggregate    *)
(* answer at most 10.                                                       *)

PageSize == 3           \* 'pageSize': 3 of a category query
TopPageSize == 10       \* 'pageSize': 10 of the aggregate query

Numbered(i) == Art(ToString(i), "d", "u")

CatPage == Take(<<rA, rB, Numbered(1), Numbered(2)>>, PageSize)
TopTen == [i \in 1..TopPageSize |-> Numbered(i)]
TopMixed ==
    <<rA, rNoTitle, rNoDesc, rRemoved>>
    \o [i \in 1..(TopPageSize - 4) |-> Numbered(i)]

FetchWorlds ==
    {World(t, s, r, g, Fail) :
        t \in {Fail, Ok(<<rA, rB, rRemoved>>), Ok(CatPage)},
        s \in {Ok(<<>>), Ok(<<rA, rB>>), Ok(CatPage)},
        r \in {Ok(<<>>), Ok(CatPage)},
        g \in {Fail, Ok(TopTen), Ok(TopMixed)}}

NextFetch ==
    \/ Tick
    \/ \E u \in Users, w \in FetchWorlds : news_command(u, FetchNews(w))

SpecFetch == Init /\ [][NextFetch]_vars

\* every category query of the world answers
AllAnswer(w) == \A i \in 1..Len(FetchCategories) : w[FetchCategories[i]].ok

\* the items of the category answers from the i-th on, up to the first query
\* that fails
RECURSIVE Yielded(_, _)
Yielded(w, i) ==
    IF i > Len(FetchCategories) \/ ~w[FetchCategories[i]].ok THEN <<>>
    ELSE NormalizeAll(w[FetchCategories[i]].articles,
                      CategoryLabel(FetchCategories[i]))
         \o Yielded(w, i + 1)

\* batch is yielded followed by aggregate items, each with a title that no
\* item before it has
MergedOnlyNew(yielded, batch) ==
    /\ Len(batch) >= Len(yielded)
    /\ SubSeq(batch, 1, Len(yielded)) = yielded
    /\ \A i \in (Len(yielded) + 1)..Len(batch) :
         /\ batch[i].category = GeneralLabel
         /\ ~HasTitle(SubSeq(batch, 1, i - 1), batch[i].title)

PartialFailure ==
    [][\A u \in Users, w \in Worlds :
         (Stale /\ bot = "NewsBot" /\ news_command(u, FetchNews(w)))
         => /\ (AllAnswer(w) /\ Len(Yielded(w, 1)) < MinNews /\ ~w["top"].ok)
               => /\ failed' = 1
                  /\ ret' = IF Yielded(w, 1) = <<>> THEN TestNews
                            ELSE Yielded(w, 1)
                  /\ origin' = IF Yielded(w, 1) = <<>> THEN "sample"
                               ELSE "provider"
            /\ ~AllAnswer(w)
               => /\ ret' = TestNews
                  /\ origin' = "sample"
                  /\ calls' <= Len(FetchCategories)
            /\ newsFile'.news = ret']_vars

\* the aggregate query failed and the items of the categories were kept
PartialFailureWitness ==
    /\ bot = "NewsBot"
    /\ origin = "provider"
    /\ calls = Len(FetchCategories) + 1
    /\ failed = 1
    /\ ret # <<>>
    /\ ret = newsFile.news

\* the queries of a fetch that answered: the categories, and the aggregate
\* query when it was the sixth request and did not fail
Answered(w, made, failures) ==
    IF ~AllAnswer(w) THEN {}
    ELSE Range(FetchCategories)
         \cup (IF made = Len(FetchCategories) + 1 /\ failures = 0
               THEN {"top"} ELSE {})

\* the batch has an item made of the raw record, with the placeholder where
\* the record has no description
StoredFrom(batch, a) ==
    \E i \in 1..Len(batch) :
       /\ batch[i].title = a.title
       /\ batch[i].url = a.url
       /\ batch[i].description =
            (IF a.description = "" THEN Placeholder ELSE a.description)

\* C20: a raw record of an answer is made an item of the batch exactly when
\* it has a non-empty title and a non-empty url other than
\* 'https://removed.com'; a record without a description is stored with the
\* placeholder as its description; no stored item has an empty title,
\* description or url.
NormalizerAccepts ==
    [][\A u \in Users, w \in FetchWorlds :
         (/\ Stale
          /\ bot = "NewsBot"
          /\ news_command(u, FetchNews(w))
          /\ origin' = "provider")
         => /\ \A q \in Answered(w, calls', failed') :
                 \A a \in Range(w[q].articles) :
                    (a.title # "" /\ a.url # "" /\ a.url # Removed)
                    <=> StoredFrom(newsFile'.news, a)
            /\ \A i \in 1..Len(newsFile'.news) :
                 /\ newsFile'.news[i].title # ""
                 /\ newsFile'.news[i].description # ""
                 /\ newsFile'.news[i].url # ""]_vars

----------------------------------------------------------------------------
(* Properties of the subscription registry of SimpleNewsBot (SpecDaily) *)

\* the two /daily buttons as time passes
NextDaily ==
    \/ Tick /\ bot = "SimpleNewsBot"
    \/ \E u \in Users : subscribe_to_daily(u)
    \/ \E u \in Users : unsubscribe_from_daily(u)

SpecDaily == Init /\ [][NextDaily]_vars

\* C21: a subscribe by a user who is subscribed leaves that user's record
\* (the subscribed flag and subscribed_at) as it is, and an unsubscribe by a
\* user who is not subscribed leaves the registry as it is.
ToggleIdempotent ==
    [][\A u \in Users :
         /\ (subscribe_to_daily(u) /\ Subscription(u).subscribed)
            => /\ subscriptionsFile'[Str(u)].subscribed
               /\ subscriptionsFile'[Str(u)].subscribed_at =
                    subscriptionsFile[Str(u)].subscribed_at
         /\ (unsubscribe_from_daily(u) /\ ~Subscription(u).subscribed)
            => subscriptionsFile' = subscriptionsFile]_vars

\* the items of s in their order, each title at its first occurrence only
RECURSIVE FirstOccurrences(_)
FirstOccurrences(s) ==
    IF s = <<>> THEN <<>>
    ELSE LET front == FirstOccurrences(SubSeq(s, 1, Len(s) - 1))
             last == s[Len(s)]
         IN  IF HasTitle(front, last.title) THEN front ELSE Append(front, last)

\* the accepted records of the answers of a fetch, in the order of the
\* queries and of the records within an answer
Collected(w, made, failures) ==
    Yielded(w, 1)
    \o (IF "top" \in Answered(w, made, failures)
        THEN NormalizeAll(w["top"].articles, GeneralLabel) ELSE <<>>)

\* C25: a fetched batch holds the accepted records in the order they came
\* in, each title once, as the item of its first occurrence: [A, B, A']
\* yields [A, B].
FirstOccurrenceWins ==
    [][\A u \in Users, w \in FetchWorlds :
         (/\ Stale
          /\ bot = "NewsBot"
          /\ news_command(u, FetchNews(w))
          /\ origin' = "provider")
         => ret' = FirstOccurrences(Collected(w, calls', failed'))]_vars

\* the number of category queries up to and including the first that fails
QueriedPrefix(w) ==
    LET bad == {i \in 1..Len(FetchCategories) : ~w[FetchCategories[i]].ok}
    IN  IF bad = {} THEN Len(FetchCategories)
        ELSE CHOOSE i \in bad : \A j \in bad : i <= j

\* C26: a refresh makes at most one query per category, in the fixed order
\* and stopping at the first that fails, then at most one aggregate query
\* and only after all five categories answered; no query is repeated after
\* a failure, whatever the provider answers.
BoundedRefresh ==
    [][\A u \in Users, w \in Worlds :
         (/\ Stale
          /\ bot = "NewsBot"
          /\ news_command(u, FetchNews(w)))
         => /\ calls' <= Len(FetchCategories) + 1
            /\ failed' <= 1
            /\ calls' \in {QueriedPrefix(w), QueriedPrefix(w) + 1}
            /\ calls' = QueriedPrefix(w) + 1
                 => /\ QueriedPrefix(w) = Len(FetchCategories)
                    /\ \A i \in 1..Len(FetchCategories) : w[FetchCategories[i]].ok
            /\ failed' = 1
                 => \/ calls' = QueriedPrefix(w) /\ ~w[FetchCategories[calls']].ok
                    \/ calls' = Len(FetchCategories) + 1 /\ ~w["top"].ok]_vars

\* a refresh whose aggregate query failed after all five categories answered
BoundedRefreshWitness ==
    /\ bot = "NewsBot"
    /\ calls = Len(FetchCategories) + 1
    /\ failed = 1

----------------------------------------------------------------------------
(* Properties of the views under read failures (SpecRead) *)

\* C27: the list /news shows to a user and records as the user's last list
\* has no item whose title is among the user's favorites at that moment,
\* and at most five items.
ShownExcludesSaved ==
    [][\A u \in Users, o \in SaveOutcomes :
         (/\ bot = "SimpleNewsBot"
          /\ handle_news_command(u, o)
          /\ reply' = "news")
         => /\ last_news_cache'[u].list = shown'[u]
            /\ Len(shown'[u]) <= SimpleShown
            /\ \A i \in 1..Len(shown'[u]) :
                  shown'[u][i].title \notin TitlesOf(SimpleFavorites(u))]_vars


AllFiles == StoreFiles \cup {FavoritesJson}

\* /news, /save and /favorites of NewsBot and of SimpleNewsBot, with reads
\* that fail; a save is made while every file reads
NextRead ==
    \/ \E u \in Users : news_command(u, FetchNews(WTop))
    \/ \E u \in Users : denied = {} /\ save_command(u, 1)
    \/ \E u \in Users : favorites_command(u)
    \/ \E u \in Users, o \in SaveOutcomes : handle_news_command(u, o)
    \/ \E u \in Users : denied = {} /\ handle_save_command(u, 1, NoCall)
    \/ \E u \in Users : handle_favorites_command(u)
    \/ \E f \in StoreFiles : load_fails(f)
    \/ \E f \in StoreFiles : load_recovers(f)
    \/ \E f \in AllFiles : read_denied(f)
    \/ \E f \in AllFiles : read_allowed(f)

SpecRead == Init /\ [][NextRead]_vars

\* C22: a request made while the read of its store file fails is answered
\* with the empty or default view of that store, not with an error: the
\* favorites view of either variant says that there are no favorites, and
\* the news view shows a list or says that there are no news.
ReadFailureDegrades ==
    [][\A u \in Users :
         /\ (favorites_command(u) /\ UsersJson \in unreadable \cup denied)
            => (reply' = "no_favorites" /\ ret' = <<>>)
         /\ (handle_favorites_command(u) /\ FavoritesJson \in denied)
            => (reply' = "no_favorites" /\ ret' = <<>>)
         /\ (/\ news_command(u, FetchNews(WTop))
             /\ NewsJson \in unreadable \cup denied)
            => reply' \in {"news", "unavailable"}]_vars

----------------------------------------------------------------------------
(* Properties of refreshes that interleave (SpecRefresh) *)

NextRefresh ==
    \/ Tick /\ bot = "WebhookNewsBot"
    \/ \E u \in Users,
          r \in {WebhookFetchNews(WFull), WebhookFetchNews(WTop)} :
          webhook_update_begin(u, r)
    \/ \E u \in Users : webhook_update_end(u)
    \/ \E u \in Users : webhook_cache_hit(u)

SpecRefresh == Init /\ [][NextRefresh]_vars

\* the calls of _update_news that have queried the provider and not yet
\* stored their batch
Refreshing == {u \in Users : inflight[u].pc = "fetching"}

\* C23: at most one refresh is under way at any time, and a refresh that
\* stores its batch finds the cache as stale as it was when the refresh
\* began: no other refresh has stored a batch in between.
SingleRefresh ==
    /\ [](Cardinality(Refreshing) <= 1)
    /\ [][\A u \in Users : webhook_update_end(u) => Stale]_vars

----------------------------------------------------------------------------
(* Properties of the favorites list (SpecList).  Store reads and writes     *)
(* succeed and handlers run one at a time.                                  *)

NextList ==
    \/ \E u \in Users, r \in {FetchNews(WFull), FetchNews(WTop)} :
          news_command(u, r)
    \/ \E u \in Users, n \in 1..MaxIdx : save_command(u, n)
    \/ \E u \in Users, n \in 1..MaxIdx : button_callback(u, "plain", n)
    \/ \E u \in Users : favorites_command(u)

SpecList == Init /\ [][NextList]_vars

\* the step is a save by u of item n of the stored batch that was answered
\* with "saved"
SavedBy(u, n) ==
    /\ save_command(u, n) \/ button_callback(u, "plain", n)
    /\ reply' = "saved"

\* C24: the favorites of a user are the items the user saved, in the order
\* of the saves: a successful save puts its item at the end of the list, no
\* other step changes the list, and /favorites lists it in that order.
InsertionOrder ==
    [][\A u \in Users :
         /\ \A n \in 1..MaxIdx :
              SavedBy(u, n)
              => Favorites(u)' = Append(Favorites(u), newsFile.news[n])
         /\ Favorites(u)' # Favorites(u) => \E n \in 1..MaxIdx : SavedBy(u, n)
         /\ (favorites_command(u) /\ Favorites(u) # <<>>)
            => (reply' = "favorites" /\ ret' = Favorites(u))]_vars

\* /favorites lists B before A for a user who saved B first and A second
InsertionOrderWitness ==
    /\ reply = "favorites"
    /\ Len(ret) = 2
    /\ ret[1].title = "B"
    /\ ret[2].title = "A"
    /\ \E u \in Users : ret = Favorites(u)

----------------------------------------------------------------------------
(* Properties of the scheduler loop (SpecSched) *)

NextSched ==
    \/ \E t0 \in StartTimes : run_scheduler(t0)
    \/ scheduler_sleep
    \/ \E d \in SendDurations, down \in SUBSET Users : scheduler_fire(d, down)

SpecSched == Init /\ [][NextSched]_vars

\* the first second of the target minute of day k
Window(k) == k * Day + TargetHour * 3600 + TargetMinute * 60

\* C15: the loop calls the broadcast exactly once in the 09:00 minute of each
\* day it runs through, whatever the broadcasts last: a match is never in the
\* minute of the match before it, and no iteration takes the loop from
\* before the end of a 09:00 minute to after it without a match in that
\* minute.
OncePerDay ==
    [][sched.pc = "running"
       => /\ (sched'.lastFire # sched.lastFire /\ sched.lastFire # None)
             => sched'.lastFire \div 60 # sched.lastFire \div 60
          /\ \A k \in 0..MaxDays :
                (/\ sched.clock < Window(k) + 60
                 /\ sched'.clock >= Window(k) + 60)
                => sched'.lastFire >= Window(k)]_vars

====
